---------------------------- MODULE Spec2Model ----------------------------
(***************************************************************************)
(* google-proxy: the Gemini adapter and its retrying transport.            *)
(*                                                                         *)
(*   src/src/api/gemini.rs        GeminiClient (retry loop, backoff)       *)
(*   src/src/types/gemini.rs      vendor types and the translators         *)
(*   src/src/handlers/message.rs  handle_request (the dispatcher)          *)
(*                                                                         *)
(* One inbound request is handled at a time.  The handler is cut at its    *)
(* calls of the host's send_http: what the network answers is the only     *)
(* input that arrives while a request is being handled.                    *)
(***************************************************************************)
EXTENDS Integers, Sequences, FiniteSets, TLC

VARIABLES
    state,       \* the actor's state, as handle_request receives it
    inbound,     \* the request bytes being handled
    reply,       \* what handle_request returned for them
    client,      \* the GeminiClient in use: [api_key, retry_config]
    pc,          \* "idle" | "send" (inside make_request_with_retry) | "returned"
                 \* | "calc" | "delayed" (calculate_delay alone)
    attempt,     \* make_request_with_retry: the loop variable
    last_error,  \* make_request_with_retry: last_error (Option<GeminiError>)
    delay,       \* the value of the last calculate_delay call
    calls,       \* number of send_http calls made for the current request
    sleeps,      \* the arguments of the sleep_ms calls made for the current request
    outcomes,    \* what send_http returned, attempt by attempt
    result       \* what make_request_with_retry returned

transport_vars == <<client, pc, attempt, last_error, delay, calls, sleeps, outcomes, result>>

vars == <<state, inbound, reply, client, pc, attempt, last_error, delay, calls, sleeps,
          outcomes, result>>

-----------------------------------------------------------------------------
(* u32 values that hold milliseconds.  The checker's integers stop at       *)
(* 2^31 - 1, so such a u32 is kept as two 16-bit limbs, value hi*2^16 + lo. *)

Limb == 2^16

U32(n) == [hi |-> n \div Limb, lo |-> n % Limb]

U32_MAX == [hi |-> Limb - 1, lo |-> Limb - 1]

U32Le(a, b) == a.hi < b.hi \/ (a.hi = b.hi /\ a.lo <= b.lo)

\* u32::min
U32Min(a, b) == IF U32Le(a, b) THEN a ELSE b

RECURSIVE BitLen(_)
BitLen(n) == IF n = 0 THEN 0 ELSE 1 + BitLen(n \div 2)

(* f32 values: (-1)^neg * m * 2^e with m < 2^24 (the 24-bit significand).   *)
(* Infinities, NaN and subnormals are outside the values the model draws.   *)

F32Bits == 24

RECURSIVE F32Norm(_, _)
F32Norm(m, e) ==
    IF m = 0 THEN [m |-> 0, e |-> 0]
    ELSE IF m % 2 = 0 THEN F32Norm(m \div 2, e + 1)
    ELSE [m |-> m, e |-> e]

\* round to nearest, ties to even, to a 24-bit significand
F32Round(neg, m, e) ==
    LET L == BitLen(m)
        s == L - F32Bits
        q == m \div 2^s
        r == m % 2^s
        h == 2^(s - 1)
        up == r > h \/ (r = h /\ q % 2 = 1)
        n == IF L <= F32Bits THEN F32Norm(m, e)
             ELSE F32Norm(IF up THEN q + 1 ELSE q, e + s)
    IN  [neg |-> neg /\ n.m # 0, m |-> n.m, e |-> n.e]

\* `u as f32`
U32ToF32(u) ==
    IF u.hi < 2^15
    THEN F32Round(FALSE, u.hi * Limb + u.lo, 0)
    ELSE \* 32 significant bits: the low 8 are rounded away
         LET q == u.hi * 2^8 + (u.lo \div 2^8)
             r == u.lo % 2^8
             up == r > 2^7 \/ (r = 2^7 /\ q % 2 = 1)
             n == F32Norm(IF up THEN q + 1 ELSE q, 8)
         IN  [neg |-> FALSE, m |-> n.m, e |-> n.e]

F32Mul(x, y) == F32Round(x.neg # y.neg, x.m * y.m, x.e + y.e)

\* f32::powi for an exponent >= 0
RECURSIVE F32Powi(_, _)
F32Powi(x, n) ==
    IF n = 0 THEN [neg |-> FALSE, m |-> 1, e |-> 0]
    ELSE F32Mul(F32Powi(x, n - 1), x)

\* a cast that wraps: a value of 2^32 or more comes out as 0
F32ToU32_wrapping(x) ==
    IF x.neg \/ x.m = 0 THEN U32(0)
    ELSE IF x.e < 0
    THEN (IF -x.e >= F32Bits THEN U32(0) ELSE U32(x.m \div 2^(-x.e)))
    ELSE IF BitLen(x.m) + x.e > 32 THEN U32(0)
    ELSE IF x.e >= 16 THEN [hi |-> x.m * 2^(x.e - 16), lo |-> 0]
    ELSE [hi |-> x.m \div 2^(16 - x.e), lo |-> (x.m % 2^(16 - x.e)) * 2^x.e]

\* `x as u32`: the fraction is dropped, the value saturates at 0 and u32::MAX
F32ToU32(x) ==
    IF x.neg \/ x.m = 0 THEN U32(0)
    ELSE IF x.e < 0
    THEN (IF -x.e >= F32Bits THEN U32(0) ELSE U32(x.m \div 2^(-x.e)))
    ELSE IF BitLen(x.m) + x.e > 32 THEN U32_MAX
    ELSE IF x.e >= 16 THEN [hi |-> x.m * 2^(x.e - 16), lo |-> 0]
    ELSE [hi |-> x.m \div 2^(16 - x.e), lo |-> (x.m % 2^(16 - x.e)) * 2^x.e]

-----------------------------------------------------------------------------
(* RetryConfig and GeminiClient                                            *)

F32Lit(neg, m, e) == [neg |-> neg, m |-> m, e |-> e]

RetryConfig(max_retries, base_delay_ms, max_delay_ms, backoff_multiplier) ==
    [max_retries |-> max_retries, base_delay_ms |-> base_delay_ms,
     max_delay_ms |-> max_delay_ms, backoff_multiplier |-> backoff_multiplier]

\* impl Default for RetryConfig
RetryConfigDefault == RetryConfig(3, U32(1000), U32(30000), F32Lit(FALSE, 1, 1))

\* GeminiClient::new
GeminiClientNew(api_key) == [api_key |-> api_key, retry_config |-> RetryConfigDefault]

\* GeminiClient::new_with_retry_config
GeminiClientNewWithRetryConfig(api_key, retry_config) ==
    [api_key |-> api_key, retry_config |-> retry_config]

\* the delay without its `.min(max_delay_ms)`
calculate_delay_unclamped(self, a) ==
    F32ToU32(F32Mul(U32ToF32(self.retry_config.base_delay_ms),
                    F32Powi(self.retry_config.backoff_multiplier, a)))

\* GeminiClient::calculate_delay
calculate_delay(self, a) ==
    LET d == F32ToU32(F32Mul(U32ToF32(self.retry_config.base_delay_ms),
                             F32Powi(self.retry_config.backoff_multiplier, a)))
    IN  U32Min(d, self.retry_config.max_delay_ms)

\* every status outside 2xx taken as retryable
is_retryable_status_non_2xx(status) == status \notin 200..299

\* GeminiClient::is_retryable_status
is_retryable_status(status) == status \in {503, 429, 500, 502, 504}

-----------------------------------------------------------------------------
(* GeminiError, and the bytes of an HTTP body                              *)

\* a message is kept as the sequence of its pieces
GeminiError(kind, status, message) ==
    [kind |-> kind, status |-> status, message |-> message]

HttpError(e) == GeminiError("HttpError", 0, <<e>>)

ApiError(status, message) == GeminiError("ApiError", status, <<message>>)

NoError == GeminiError("None", 0, <<>>)

\* Option<Vec<u8>>: `text` names the bytes, `utf8` tells whether they are
\* valid UTF-8, `json` is the JSON value they spell (NotJson when none)
NotJson == [not_json |-> TRUE]

NoBody == [some |-> FALSE, utf8 |-> TRUE, text |-> "", json |-> NotJson]

Bytes(text) == [some |-> TRUE, utf8 |-> TRUE, text |-> text, json |-> NotJson]

BadBytes(text) == [some |-> TRUE, utf8 |-> FALSE, text |-> text, json |-> NotJson]

Json(text, value) == [some |-> TRUE, utf8 |-> TRUE, text |-> text, json |-> value]

\* String::from_utf8_lossy(&body.unwrap_or_default()).to_string()
lossy_message(body) ==
    IF ~body.some THEN ""
    ELSE IF body.utf8 THEN body.text
    ELSE "\\uFFFD:" \o body.text

\* what send_http returns: Ok(HttpResponse) or Err(String)
HttpOk(status, body) == [ok |-> TRUE, status |-> status, body |-> body, error |-> ""]

HttpErr(e) == [ok |-> FALSE, status |-> 0, body |-> NoBody, error |-> e]

NoResult == [set |-> FALSE, ok |-> FALSE, response |-> HttpErr(""), error |-> NoError]

Ok(response) == [set |-> TRUE, ok |-> TRUE, response |-> response, error |-> NoError]

Err(error) == [set |-> TRUE, ok |-> FALSE, response |-> HttpErr(""), error |-> error]

-----------------------------------------------------------------------------
(* GeminiClient::make_request_with_retry, one loop iteration per step      *)

\* GeminiError::HttpError(e) of a failed send_http
transport_failure(e) == HttpError(e)

\* the error of the first failed attempt kept in place of the latest
retryable_failure_first(response) ==
    IF last_error # NoError THEN last_error
    ELSE ApiError(response.status, lossy_message(response.body))

\* GeminiError::ApiError { status, message } of a response with a retryable status
retryable_failure(response) == ApiError(response.status, lossy_message(response.body))

\* a loop that gives up one attempt early
retries_left_one_short(self, a) == a + 1 < self.retry_config.max_retries

\* `attempt < self.retry_config.max_retries`
retries_left(self, a) == a < self.retry_config.max_retries

\* a loop that sleeps for the delay of the attempt to come
Continue_delay_next(err) ==
    /\ last_error' = err
    /\ delay' = calculate_delay(client, attempt + 1)
    /\ sleeps' = Append(sleeps, calculate_delay(client, attempt + 1))
    /\ attempt' = attempt + 1
    /\ IF attempt + 1 <= client.retry_config.max_retries
       THEN UNCHANGED <<pc, result>>
       ELSE /\ result' = Err(err)
            /\ pc' = "returned"

\* sleep_ms(delay); continue.  A loop that has run out of attempts falls
\* through to Err(last_error.unwrap_or(..)).
Continue(err) ==
    /\ last_error' = err
    /\ delay' = calculate_delay(client, attempt)
    /\ sleeps' = Append(sleeps, calculate_delay(client, attempt))
    /\ attempt' = attempt + 1
    /\ IF attempt + 1 <= client.retry_config.max_retries
       THEN UNCHANGED <<pc, result>>
       ELSE /\ result' = Err(err)
            /\ pc' = "returned"

Return(res) ==
    /\ result' = res
    /\ pc' = "returned"
    /\ UNCHANGED <<delay, sleeps, attempt>>

\* one iteration of `for attempt in 0..=max_retries`, send_http returning o
SendHttp(o) ==
    /\ pc = "send"
    /\ calls' = calls + 1
    /\ outcomes' = Append(outcomes, o)
    /\ IF ~o.ok
       THEN IF retries_left(client, attempt)
            THEN Continue(transport_failure(o.error))
            ELSE /\ last_error' = transport_failure(o.error)
                 /\ Return(Err(transport_failure(o.error)))
       ELSE IF is_retryable_status(o.status)
       THEN IF retries_left(client, attempt)
            THEN Continue(retryable_failure(o))
            ELSE /\ last_error' = retryable_failure(o)
                 /\ Return(Err(retryable_failure(o)))
       ELSE \* success case or non-retryable error
            /\ Return(Ok(o))
            /\ UNCHANGED last_error
    /\ UNCHANGED client

-----------------------------------------------------------------------------
(* Results of the conversions: Ok(value), Err(error), or a panic           *)

Good(v) == [ok |-> TRUE, panic |-> FALSE, value |-> v, error |-> NoError]

Bad(e) == [ok |-> FALSE, panic |-> FALSE, value |-> <<>>, error |-> e]

Panics == [ok |-> FALSE, panic |-> TRUE, value |-> <<>>, error |-> NoError]

\* format!("{:?}", e) of a GeminiError, as pieces
debug(e) ==
    IF e.kind = "ApiError" THEN <<"ApiError", ToString(e.status)>> \o e.message
    ELSE <<e.kind>> \o e.message

\* iter.collect::<Result<Vec<_>, _>>(): the values, or the first error
collect(rs) ==
    IF \E i \in 1..Len(rs) : ~rs[i].ok
    THEN rs[CHOOSE i \in 1..Len(rs) : ~rs[i].ok /\ \A j \in 1..(i - 1) : rs[j].ok]
    ELSE Good([i \in 1..Len(rs) |-> rs[i].value])

-----------------------------------------------------------------------------
(* Request translation: agnostic request -> vendor request                 *)

\* impl From<GenaiRole> for Role
role_from_genai(role) ==
    CASE role = "User" -> "User"
      [] role = "Assistant" -> "Model"
      [] role = "System" -> "System"

\* a role mapping that has no System on the way back
genai_from_role_no_system(role) ==
    CASE role = "User" -> "User"
      [] role = "Model" -> "Assistant"
      [] role = "System" -> "Assistant"

\* impl From<Role> for GenaiRole
genai_from_role(role) ==
    CASE role = "User" -> "User"
      [] role = "Model" -> "Assistant"
      [] role = "System" -> "System"

\* ContentPart::Text { text } and ContentPart::InlineData { mime_type, data }
TextPart(text) == [variant |-> "Text", text |-> text, mime_type |-> "", data |-> ""]

InlineDataPart(mime_type, data) ==
    [variant |-> "InlineData", text |-> "", mime_type |-> mime_type, data |-> data]

\* a conversion that lets every block through, a non-text block as empty text
content_part_try_from_lenient(content) ==
    IF content.kind = "Text" THEN Good(TextPart(content.text))
    ELSE Good(TextPart(""))

\* impl TryFrom<MessageContent> for ContentPart
content_part_try_from(content) ==
    IF content.kind = "Text" THEN Good(TextPart(content.text))
    ELSE Bad(GeminiError("UnsupportedFeature", 0, <<"only text is available right now">>))

\* impl TryFrom<Message> for Content
content_try_from(message) ==
    LET converted == [i \in 1..Len(message.content) |->
            LET r == content_part_try_from(message.content[i])
            IN  IF r.ok THEN r
                ELSE Bad(GeminiError("SerializationError", 0,
                         <<"Failed to convert message part: ">> \o debug(r.error)))]
        parts == collect(converted)
    IN  IF parts.ok
        THEN Good([role |-> role_from_genai(message.role), parts |-> parts.value])
        ELSE Bad(GeminiError("SerializationError", 0, debug(parts.error)))

\* impl TryFrom<CompletionRequest> for GenerateContentRequest
generate_content_request_try_from(request) ==
    LET system_instruction ==
            IF request.system.some
            THEN [some |-> TRUE, role |-> "System", parts |-> <<TextPart(request.system.text)>>]
            ELSE [some |-> FALSE, role |-> "System", parts |-> <<>>]
        contents == collect([i \in 1..Len(request.messages) |->
                                content_try_from(request.messages[i])])
    IN  IF contents.ok
        THEN Good([model |-> request.model, contents |-> contents.value,
                   generation_config |-> "None", system_instruction |-> system_instruction])
        ELSE Bad(GeminiError("SerializationError", 0,
                 <<"Failed to convert message: ">> \o debug(contents.error)))

-----------------------------------------------------------------------------
(* Deserializing the vendor response (the serde derives).  A JSON object   *)
(* is a record of its keys.                                                *)

SerdeError(pieces) == GeminiError("SerdeError", 0, pieces)

missing_field(name) == Bad(SerdeError(<<"missing field", name>>))

\* #[serde(untagged)] enum ContentPart: the variants are tried in order,
\* Text { text } first, InlineData { mime_type, data } second
parse_content_part(w) ==
    IF "text" \in DOMAIN w THEN Good(TextPart(w.text))
    ELSE IF {"mime_type", "data"} \subseteq DOMAIN w
    THEN Good(InlineDataPart(w.mime_type, w.data))
    ELSE Bad(SerdeError(<<"data did not match any variant of untagged enum ContentPart">>))

\* enum Role with its serde renames
parse_role(tag) ==
    CASE tag = "user" -> Good("User")
      [] tag = "model" -> Good("Model")
      [] tag = "system" -> Good("System")
      [] OTHER -> Bad(SerdeError(<<"unknown variant", tag>>))

\* struct Content { parts, #[serde(default)] role }; Role::default() is Model
parse_content(w) ==
    IF "parts" \notin DOMAIN w THEN missing_field("parts")
    ELSE LET parts == collect([i \in 1..Len(w.parts) |-> parse_content_part(w.parts[i])])
             role == IF "role" \in DOMAIN w THEN parse_role(w.role) ELSE Good("Model")
         IN  IF ~parts.ok THEN parts
             ELSE IF ~role.ok THEN role
             ELSE Good([parts |-> parts.value, role |-> role.value])

\* enum FinishReason: each variant with its serde rename
FinishReasonTag ==
    [FinishReasonUnspecified |-> "FINISH_REASON_UNSPECIFIED",
     Stop |-> "STOP",
     MaxTokens |-> "MAX_TOKENS",
     Safety |-> "SAFETY",
     Recitation |-> "RECITATION",
     Language |-> "LANGUAGE",
     Other |-> "OTHER",
     Blocklist |-> "BLOCKLIST",
     ProhibitedContent |-> "PROHIBITED_CONTENT",
     Spii |-> "SPII",
     MalformedFunctionCall |-> "MALFORMED_FUNCTION_CALL",
     ImageSafety |-> "IMAGE_SAFETY"]

FinishReason == DOMAIN FinishReasonTag

parse_finish_reason(tag) ==
    IF \E v \in FinishReason : FinishReasonTag[v] = tag
    THEN Good(CHOOSE v \in FinishReason : FinishReasonTag[v] = tag)
    ELSE Bad(SerdeError(<<"unknown variant", tag>>))

\* struct Candidate { content, finish_reason, #[serde(default)] index,
\*                    #[serde(default)] safety_ratings }
parse_candidate(w) ==
    IF "content" \notin DOMAIN w THEN missing_field("content")
    ELSE LET content == parse_content(w.content)
         IN  IF ~content.ok THEN content
             ELSE IF "finish_reason" \notin DOMAIN w THEN missing_field("finish_reason")
             ELSE LET reason == parse_finish_reason(w.finish_reason)
                  IN  IF ~reason.ok THEN reason
                      ELSE Good([content |-> content.value,
                                 finish_reason |-> reason.value,
                                 index |-> IF "index" \in DOMAIN w THEN w.index ELSE 0])

NoUsage == [some |-> FALSE, prompt_token_count |-> 0, candidates_token_count |-> 0,
            total_token_count |-> 0]

\* struct UsageMetadata { prompt_token_count, candidates_token_count, total_token_count }
parse_usage_metadata(w) ==
    IF "prompt_token_count" \notin DOMAIN w THEN missing_field("prompt_token_count")
    ELSE IF "candidates_token_count" \notin DOMAIN w
    THEN missing_field("candidates_token_count")
    ELSE IF "total_token_count" \notin DOMAIN w THEN missing_field("total_token_count")
    ELSE Good([some |-> TRUE, prompt_token_count |-> w.prompt_token_count,
               candidates_token_count |-> w.candidates_token_count,
               total_token_count |-> w.total_token_count])

\* serde_json::from_slice::<GenerateContentResponse>(&body):
\* struct GenerateContentResponse { candidates, prompt_feedback: Option,
\*                                  usage_metadata: Option, model_version }
parse_generate_content_response(body) ==
    IF body.json = NotJson THEN Bad(SerdeError(<<"expected value">>))
    ELSE LET w == body.json
         IN  IF "candidates" \notin DOMAIN w THEN missing_field("candidates")
             ELSE LET candidates == collect([i \in 1..Len(w.candidates) |->
                                                parse_candidate(w.candidates[i])])
                      usage == IF "usage_metadata" \in DOMAIN w
                               THEN parse_usage_metadata(w.usage_metadata)
                               ELSE Good(NoUsage)
                  IN  IF ~candidates.ok THEN candidates
                      ELSE IF ~usage.ok THEN usage
                      ELSE IF "model_version" \notin DOMAIN w
                      THEN missing_field("model_version")
                      ELSE Good([candidates |-> candidates.value,
                                 usage_metadata |-> usage.value,
                                 model_version |-> w.model_version])

-----------------------------------------------------------------------------
(* Response translation: vendor response -> agnostic response              *)

\* MessageContent::Text { text }
TextContent(text) == [kind |-> "Text", text |-> text]

\* impl TryFrom<ContentPart> for MessageContent
message_content_try_from(part) ==
    IF part.variant = "Text" THEN Good(TextContent(part.text))
    ELSE Bad(GeminiError("UnsupportedFeature", 0, <<"only text is available right now">>))

\* impl TryFrom<Content> for Message
message_try_from(content) ==
    LET converted == [i \in 1..Len(content.parts) |->
            LET r == message_content_try_from(content.parts[i])
            IN  IF r.ok THEN r
                ELSE Bad(GeminiError("SerializationError", 0,
                         <<"Failed to convert message part: ">> \o debug(r.error)))]
        blocks == collect(converted)
    IN  IF blocks.ok
        THEN Good([role |-> genai_from_role(content.role), content |-> blocks.value])
        ELSE Bad(GeminiError("SerializationError", 0, debug(blocks.error)))

StopReason(tag, other) == [tag |-> tag, other |-> other]

\* serde_json::to_string(&reason): the JSON text of the variant's tag, a
\* string literal with its quotes
finish_reason_to_string(reason) == "\"" \o FinishReasonTag[reason] \o "\""

\* impl From<FinishReason> for StopReason
stop_reason_from(reason) ==
    CASE reason = "FinishReasonUnspecified" -> StopReason("EndTurn", "")
      [] reason = "Stop" -> StopReason("EndTurn", "")
      [] reason = "MaxTokens" -> StopReason("MaxTokens", "")
      [] OTHER -> StopReason("Other", finish_reason_to_string(reason))

\* impl TryFrom<GenerateContentResponse> for CompletionResponse
completion_response_try_from(response) ==
    IF Len(response.candidates) = 0 THEN Panics     \* response.candidates[0]
    ELSE LET candidate == response.candidates[1]
             parts == candidate.content.parts
             converted == [i \in 1..Len(parts) |-> message_content_try_from(parts[i])]
         IN  IF \E i \in 1..Len(parts) : ~converted[i].ok THEN Panics   \* .unwrap()
             ELSE Good([content |-> [i \in 1..Len(parts) |-> converted[i].value],
                        id |-> ToString(candidate.index),
                        model |-> response.model_version,
                        role |-> genai_from_role(candidate.content.role),
                        stop_reason |-> stop_reason_from(candidate.finish_reason),
                        stop_sequence |-> "None",
                        message_type |-> "gemini",
                        usage |-> IF response.usage_metadata.some
                                  THEN [input_tokens |-> response.usage_metadata.prompt_token_count,
                                        output_tokens |-> response.usage_metadata.candidates_token_count]
                                  ELSE [input_tokens |-> 0, output_tokens |-> 0]])

-----------------------------------------------------------------------------
(* GeminiClient::generate_content and handle_request                       *)

\* generate_content once make_request_with_retry has returned res
generate_content_return(res) ==
    IF ~res.ok THEN Bad(res.error)                      \* the `?`
    ELSE IF res.response.status # 200
    THEN Bad(ApiError(res.response.status, lossy_message(res.response.body)))
    ELSE IF ~res.response.body.some
    THEN Bad(GeminiError("InvalidResponse", 0, <<"No response body">>))
    ELSE parse_generate_content_response(res.response.body)

\* ModelInfo::get_default_models, each through From<ModelInfo> for genai_types::ModelInfo
default_models ==
    << [id |-> "gemini-2.0-flash", display_name |-> "Gemini 2.0 Flash",
        provider |-> "google", max_tokens |-> 8000, pricing |-> "None"],
       [id |-> "gemini-2.0-pro", display_name |-> "Gemini 2.0 Pro",
        provider |-> "google", max_tokens |-> 16000, pricing |-> "None"] >>

\* ProxyResponse
CompletionResponse(completion) == [tag |-> "Completion", completion |-> completion]

ListModelsResponse(models) == [tag |-> "ListModels", models |-> models]

ErrorResponse(error) == [tag |-> "Error", error |-> error]

\* what handle_request returns: Ok((Some(state_bytes), (Some(bytes),))), Err(String),
\* or no return at all (a panic)
\* a return that hands the state back without its credential
HandlerOk_without_key(state_bytes, response) ==
    [kind |-> "Ok", state |-> [state_bytes EXCEPT !.api_key = ""], response |-> response]

HandlerOk(state_bytes, response) ==
    [kind |-> "Ok", state |-> state_bytes, response |-> response]

HandlerErr(message) == [kind |-> "Err", message |-> message]

HandlerPanic == [kind |-> "Panic"]

NoReply == [kind |-> "None"]

\* the state the actor holds after a handler has returned: the state of an
\* Ok return; a handler that is still running, has failed or has panicked
\* has handed no state back
next_state(current, returned) ==
    IF returned.kind = "Ok" THEN returned.state ELSE current

\* handle_send, handle_channel_close and handle_channel_message: Ok((state,))
handle_send(state_bytes) == HandlerOk(state_bytes, [tag |-> "None"])

handle_channel_close(state_bytes) == HandlerOk(state_bytes, [tag |-> "None"])

handle_channel_message(state_bytes) == HandlerOk(state_bytes, [tag |-> "None"])

\* handle_channel_open: Ok((state, (ChannelAccept { accepted: true, message: None },)))
handle_channel_open(state_bytes) ==
    HandlerOk(state_bytes, [tag |-> "ChannelAccept", accepted |-> TRUE, message |-> "None"])

\* handle_request once generate_content has returned `generated`
handle_generated(state_bytes, generated) ==
    IF generated.ok
    THEN LET content == completion_response_try_from(generated.value)
         IN  IF content.panic THEN HandlerPanic
             ELSE IF content.ok
             THEN HandlerOk(state_bytes, CompletionResponse(content.value))
             ELSE HandlerErr(<<"Failed to convert content: ">> \o debug(content.error))
    ELSE HandlerOk(state_bytes,
                   ErrorResponse(<<"Failed to generate content: ">> \o debug(generated.error)))

NoClient == [api_key |-> "", retry_config |-> RetryConfigDefault]

\* the transport's variables as a request starts
ResetTransport(next_pc) ==
    /\ pc' = next_pc
    /\ attempt' = 0
    /\ last_error' = NoError
    /\ delay' = U32(0)
    /\ calls' = 0
    /\ sleeps' = <<>>
    /\ outcomes' = <<>>
    /\ result' = NoResult

\* a handler that turns an unparsable request into a hard failure
invalid_request_hard(state_bytes, e) == HandlerErr(<<"Invalid request format: ", e>>)

\* handle_request when serde_json::from_slice::<ProxyRequest>(&data) fails with e:
\* the Error response serializes (it holds one string), so the Ok arm returns
invalid_request(state_bytes, e) ==
    HandlerOk(state_bytes, ErrorResponse(<<"Invalid request format: ", e>>))

\* a listing that depends on the credential
list_models_by_key(self) ==
    IF self.api_key = "test-api-key" THEN Good(default_models) ELSE Good(<<>>)

\* GeminiClient::list_models
list_models(self) == Good(default_models)

\* handle_request, the ListModels arm
handle_list_models(state_bytes, listed) ==
    IF listed.ok
    THEN HandlerOk(state_bytes, ListModelsResponse(listed.value))
    ELSE HandlerOk(state_bytes,
                   ErrorResponse(<<"Failed to list models: ">> \o debug(listed.error)))

\* handle_request(data, state_bytes), up to its return or its first send_http
HandleRequest(data) ==
    /\ pc \in {"idle", "returned"}
    /\ reply.kind # "Panic"
    /\ inbound' = data
    /\ IF data.kind = "Malformed"
       THEN /\ reply' = invalid_request(state, data.text)
            /\ client' = NoClient
            /\ ResetTransport("idle")
       ELSE /\ client' = GeminiClientNew(state.api_key)
            /\ IF data.kind = "ListModels"
               THEN /\ reply' = handle_list_models(state, list_models(GeminiClientNew(state.api_key)))
                    /\ ResetTransport("idle")
               ELSE LET req == generate_content_request_try_from(data.request)
                    IN  IF req.ok
                        THEN /\ reply' = NoReply
                             /\ ResetTransport("send")
                        ELSE /\ reply' = HandlerOk(state, ErrorResponse(
                                    <<"Failed to convert request: ">> \o debug(req.error)))
                             /\ ResetTransport("idle")
    /\ state' = next_state(state, reply')

\* the handlers that answer without reading their message
HandleSend ==
    /\ pc \in {"idle", "returned"}
    /\ reply.kind # "Panic"
    /\ inbound' = [kind |-> "Send"]
    /\ reply' = handle_send(state)
    /\ client' = NoClient
    /\ ResetTransport("idle")
    /\ state' = next_state(state, reply')

HandleChannelOpen ==
    /\ pc \in {"idle", "returned"}
    /\ reply.kind # "Panic"
    /\ inbound' = [kind |-> "ChannelOpen"]
    /\ reply' = handle_channel_open(state)
    /\ client' = NoClient
    /\ ResetTransport("idle")
    /\ state' = next_state(state, reply')

HandleChannelClose ==
    /\ pc \in {"idle", "returned"}
    /\ reply.kind # "Panic"
    /\ inbound' = [kind |-> "ChannelClose"]
    /\ reply' = handle_channel_close(state)
    /\ client' = NoClient
    /\ ResetTransport("idle")
    /\ state' = next_state(state, reply')

HandleChannelMessage ==
    /\ pc \in {"idle", "returned"}
    /\ reply.kind # "Panic"
    /\ inbound' = [kind |-> "ChannelMessage"]
    /\ reply' = handle_channel_message(state)
    /\ client' = NoClient
    /\ ResetTransport("idle")
    /\ state' = next_state(state, reply')

\* a dispatcher that sends again until it gets a 200
DispatchSendHttp_until_200(o) ==
    /\ pc = "send"
    /\ calls' = calls + 1
    /\ outcomes' = Append(outcomes, o)
    /\ attempt' = attempt + 1
    /\ result' = IF o.ok THEN Ok(o) ELSE Err(transport_failure(o.error))
    /\ pc' = IF o.ok /\ o.status = 200 THEN "returned" ELSE "send"
    /\ reply' = IF o.ok /\ o.status = 200
                THEN handle_generated(state, generate_content_return(Ok(o)))
                ELSE reply
    /\ UNCHANGED <<state, inbound, client, last_error, delay, sleeps>>

\* handle_request from one send_http to the next, or to its return
DispatchSendHttp(o) ==
    /\ SendHttp(o)
    /\ reply' = IF pc' = "returned"
                THEN handle_generated(state, generate_content_return(result'))
                ELSE reply
    /\ state' = next_state(state, reply')
    /\ UNCHANGED inbound

\* make_request_with_retry by itself
TransportSendHttp(o) ==
    /\ SendHttp(o)
    /\ UNCHANGED <<state, inbound, reply>>

-----------------------------------------------------------------------------
(* What the network may answer                                             *)

TransportErrors == {"connection refused", "timed out"}

RetryableAnswers ==
    {HttpOk(s, Bytes("overloaded")) : s \in {429, 502, 503, 504}}
    \cup {HttpOk(500, NoBody), HttpOk(503, BadBytes("x80"))}

FinalAnswers ==
    {HttpOk(s, Bytes("body")) : s \in {200, 204, 400, 404}} \cup {HttpOk(404, NoBody)}

TransportAnswers ==
    {HttpErr(e) : e \in TransportErrors} \cup RetryableAnswers \cup FinalAnswers

\* vendor response bodies.  The struct fields carry no serde rename, so the
\* keys the derives read are the snake_case field names.
TextJson(text) == [text |-> text]

FunctionCallJson == [functionCall |-> [name |-> "list_allowed_dirs", args |-> "{}"]]

InlineDataJson == [mime_type |-> "image/png", data |-> "iVBORw0KGgo="]

UsageJson == [prompt_token_count |-> 644, candidates_token_count |-> 11,
              total_token_count |-> 655]

ResponseJson(parts, finish_reason) ==
    [candidates |-> << [content |-> [parts |-> parts, role |-> "model"],
                        finish_reason |-> finish_reason] >>,
     usage_metadata |-> UsageJson,
     model_version |-> "gemini-2.0-flash"]

\* the two responses of src/src/tests.rs, keys as the vendor sends them
TestTextJson ==
    [candidates |-> << [content |-> [parts |-> <<TextJson("Hi there! How can I help you today?\n")>>,
                                     role |-> "model"],
                        finishReason |-> "STOP",
                        avgLogprobs |-> "-0.053460695526816628"] >>,
     usageMetadata |-> [promptTokenCount |-> 644, candidatesTokenCount |-> 11,
                        totalTokenCount |-> 655],
     modelVersion |-> "gemini-2.0-flash"]

TestFunctionCallJson ==
    [candidates |-> << [content |-> [parts |-> <<FunctionCallJson>>, role |-> "model"],
                        finishReason |-> "STOP"] >>,
     usageMetadata |-> [promptTokenCount |-> 654, candidatesTokenCount |-> 5,
                        totalTokenCount |-> 659],
     modelVersion |-> "gemini-2.0-flash"]

WireTags == {FinishReasonTag[v] : v \in FinishReason} \cup {"FUTURE_REASON"}

ResponseBodies ==
    { Json("text:" \o t, ResponseJson(<<TextJson("Hi there!")>>, t)) : t \in WireTags }
    \cup
    { Json("test text", TestTextJson),
      Json("test function call", TestFunctionCallJson),
      Json("function call", ResponseJson(<<FunctionCallJson>>, "STOP")),
      Json("inline data", ResponseJson(<<InlineDataJson>>, "STOP")),
      Json("text and inline data",
           ResponseJson(<<TextJson("see"), InlineDataJson>>, "MAX_TOKENS")),
      Json("two texts", ResponseJson(<<TextJson("a"), TextJson("b")>>, "SAFETY")),
      Json("no candidates", [candidates |-> <<>>, model_version |-> "gemini-2.0-flash"]),
      Json("no usage", [candidates |-> << [content |-> [parts |-> <<TextJson("ok")>>],
                                            finish_reason |-> "STOP", index |-> 1] >>,
                        model_version |-> "gemini-2.0-flash"]),
      Bytes("<html>"),
      NoBody }

DispatchAnswers ==
    { HttpErr("connection refused"), HttpOk(503, Bytes("overloaded")), HttpOk(429, NoBody) }
    \cup { HttpOk(200, b) : b \in ResponseBodies }
    \cup { HttpOk(404, Bytes("not found")), HttpOk(204, NoBody),
           HttpOk(201, Json("text:STOP", ResponseJson(<<TextJson("Hi there!")>>, "STOP"))) }

-----------------------------------------------------------------------------
(* What may arrive at handle_request                                       *)

MaxMessages == 2

ToolUseContent == [kind |-> "ToolUse", text |-> ""]

ToolResultContent == [kind |-> "ToolResult", text |-> ""]

Message(role, content) == [role |-> role, content |-> content]

\* a conversation of text messages, the roles taking turns
Turns ==
    << Message("User", <<TextContent("hello")>>),
       Message("Assistant", <<TextContent("hi"), TextContent("there")>>),
       Message("System", <<TextContent("be brief")>>) >>

Conversation(n) == [i \in 1..n |-> Turns[((i - 1) % Len(Turns)) + 1]]

\* messages that hold a content block other than Text
NonTextMessages ==
    { Message("User", <<TextContent("look"), ToolUseContent>>),
      Message("User", <<ToolResultContent>>) }

\* the conversations of up to MaxMessages messages, and each of them with
\* one message replaced by a message of NonTextMessages
Conversations ==
    { Conversation(n) : n \in 0..MaxMessages }
    \cup UNION { { [Conversation(n) EXCEPT ![k] = m] : k \in 1..n, m \in NonTextMessages }
                 : n \in 1..MaxMessages }

NoSystem == [some |-> FALSE, text |-> ""]

CompletionRequests ==
    { [model |-> "gemini-2.0-flash", messages |-> m, system |-> NoSystem] :
        m \in Conversations }
    \cup { [model |-> "gemini-2.0-pro", messages |-> Conversation(1),
            system |-> [some |-> TRUE, text |-> "You are terse."]] }

InboundData ==
    { [kind |-> "Malformed", text |-> "expected value"],
      [kind |-> "Malformed", text |-> "unknown variant"],
      [kind |-> "ListModels"] }
    \cup { [kind |-> "GenerateCompletion", request |-> r] : r \in CompletionRequests }

\* Option<T>
Some(v) == [some |-> TRUE, value |-> v]

None == [some |-> FALSE]

\* Option::unwrap_or and Option::or
unwrap_or(opt, default) == IF opt.some THEN opt.value ELSE default

or(opt, other) == IF opt.some THEN opt ELSE other

\* types::state::InitConfig, every field an Option
InitConfig(default_model, max_cache_size, timeout_ms, retry_config) ==
    [default_model |-> default_model, max_cache_size |-> max_cache_size,
     timeout_ms |-> timeout_ms, retry_config |-> retry_config]

\* impl Default for types::state::RetryConfig
StateRetryConfigDefault == RetryConfig(3, U32(1000), U32(30000), F32Lit(FALSE, 1, 1))

\* impl Default for Config
ConfigDefault ==
    [default_model |-> "gemini-2.0-flash", max_cache_size |-> Some(100),
     timeout_ms |-> U32(30000), retry_config |-> StateRetryConfigDefault]

\* a merge that takes max_cache_size from the init config as it is
StateNew_cache_as_given(id, api_key, store_id, init_config) ==
    [id |-> id, api_key |-> api_key, store_id |-> store_id,
     config |-> IF init_config.some
                THEN [default_model |-> unwrap_or(init_config.value.default_model,
                                                  ConfigDefault.default_model),
                      max_cache_size |-> init_config.value.max_cache_size,
                      timeout_ms |-> unwrap_or(init_config.value.timeout_ms,
                                               ConfigDefault.timeout_ms),
                      retry_config |-> unwrap_or(init_config.value.retry_config,
                                                 ConfigDefault.retry_config)]
                ELSE ConfigDefault]

\* State::new
StateNew(id, api_key, store_id, init_config) ==
    LET default_config == ConfigDefault
        config ==
            IF init_config.some
            THEN LET init == init_config.value
                 IN  [default_model |-> unwrap_or(init.default_model,
                                                  default_config.default_model),
                      max_cache_size |-> or(init.max_cache_size,
                                            default_config.max_cache_size),
                      timeout_ms |-> unwrap_or(init.timeout_ms, default_config.timeout_ms),
                      retry_config |-> unwrap_or(init.retry_config,
                                                 default_config.retry_config)]
            ELSE default_config
    IN  [id |-> id, api_key |-> api_key, config |-> config, store_id |-> store_id]

\* the retry configurations an init config may carry
CustomRetryConfigs ==
    { RetryConfig(1, U32(500), U32(10000), F32Lit(FALSE, 3, 0)),      \* 1, 500, 10000, 3.0
      RetryConfig(0, U32(2000), U32(2000), F32Lit(FALSE, 1, 0)) }     \* 0, 2000, 2000, 1.0

\* the states init may have built: no init config, or one that carries a
\* retry configuration
States ==
    { StateNew("google-proxy", "test-api-key", None, None) }
    \cup { StateNew("google-proxy", "other-api-key", None,
                    Some(InitConfig(None, None, None, Some(r)))) : r \in CustomRetryConfigs }

Init ==
    /\ state \in States
    /\ inbound = [kind |-> "None"]
    /\ reply = NoReply
    /\ client = NoClient
    /\ pc = "idle"
    /\ attempt = 0
    /\ last_error = NoError
    /\ delay = U32(0)
    /\ calls = 0
    /\ sleeps = <<>>
    /\ outcomes = <<>>
    /\ result = NoResult

Next ==
    \/ \E data \in InboundData : HandleRequest(data)
    \/ \E o \in DispatchAnswers : DispatchSendHttp(o)
    \/ HandleSend
    \/ HandleChannelOpen
    \/ HandleChannelClose
    \/ HandleChannelMessage

Spec == Init /\ [][Next]_vars

-----------------------------------------------------------------------------
(* The transport alone, under any retry configuration                      *)

MaxRetries == 3

BackoffConfigs ==
    { <<U32(1000), U32(30000), F32Lit(FALSE, 1, 1)>>,     \* 1000, 30000, 2.0
      <<U32(2000), U32(60000), F32Lit(FALSE, 3, -1)>>,    \* 2000, 60000, 1.5
      <<U32(500), U32(700), F32Lit(FALSE, 3, 0)>> }       \* 500, 700, 3.0

TransportConfigs ==
    { RetryConfig(n, b[1], b[2], b[3]) : n \in 0..MaxRetries, b \in BackoffConfigs }

InitTransport ==
    /\ state = StateNew("google-proxy", "key", None, None)
    /\ inbound = [kind |-> "None"]
    /\ reply = NoReply
    /\ client \in { GeminiClientNewWithRetryConfig("key", rc) : rc \in TransportConfigs }
    /\ pc = "send"
    /\ attempt = 0
    /\ last_error = NoError
    /\ delay = U32(0)
    /\ calls = 0
    /\ sleeps = <<>>
    /\ outcomes = <<>>
    /\ result = NoResult

NextTransport == \E o \in TransportAnswers : TransportSendHttp(o)

SpecTransport == InitTransport /\ [][NextTransport]_vars

-----------------------------------------------------------------------------
(* calculate_delay alone, over configurations and attempt numbers          *)

MaxAttempt == 5

DelayConfigs ==
    { <<U32(1000), U32(30000), F32Lit(FALSE, 1, 1)>>,     \* 1000, 30000, 2.0
      <<U32(1000), U32(30000), F32Lit(FALSE, 3, -1)>>,    \* 1000, 30000, 1.5
      <<U32(2000), U32(60000), F32Lit(FALSE, 3, -1)>>,    \* 2000, 60000, 1.5
      <<U32(500), U32(10000), F32Lit(FALSE, 3, 0)>>,      \* 500, 10000, 3.0
      <<U32(1), U32(100), F32Lit(FALSE, 3, -1)>>,         \* 1, 100, 1.5
      <<U32(100), U32(30000), F32Lit(FALSE, 1, 0)>>,      \* 100, 30000, 1.0
      <<U32(1000), U32(500), F32Lit(FALSE, 1, 1)>>,       \* 1000, 500, 2.0
      <<U32(0), U32(30000), F32Lit(FALSE, 1, 1)>>,        \* 0, 30000, 2.0
      <<U32(1000), U32(30000), F32Lit(FALSE, 1, -1)>>,    \* 1000, 30000, 0.5
      <<U32(1000), U32(30000), F32Lit(TRUE, 1, 1)>>,      \* 1000, 30000, -2.0
      <<U32(2^24 + 1), U32_MAX, F32Lit(FALSE, 1, 0)>>,    \* 16777217, u32::MAX, 1.0
      <<U32(2^30), U32_MAX, F32Lit(FALSE, 1, 1)>>,        \* 2^30, u32::MAX, 2.0
      <<U32(2^16), [hi |-> 2^15, lo |-> 0], F32Lit(FALSE, 1, 8)>>,  \* 65536, 2^31, 256.0
      <<[hi |-> 61035, lo |-> 10240], [hi |-> 62561, lo |-> 0], F32Lit(FALSE, 1, 1)>> }
                                                          \* 4000000000, 4099997696, 2.0

InitDelay ==
    /\ state = StateNew("google-proxy", "key", None, None)
    /\ inbound = [kind |-> "None"]
    /\ reply = NoReply
    /\ client \in { GeminiClientNewWithRetryConfig("key", RetryConfig(MaxAttempt, b[1], b[2], b[3]))
                    : b \in DelayConfigs }
    /\ pc = "calc"
    /\ attempt \in 0..MaxAttempt
    /\ last_error = NoError
    /\ delay = U32(0)
    /\ calls = 0
    /\ sleeps = <<>>
    /\ outcomes = <<>>
    /\ result = NoResult

\* let delay = self.calculate_delay(attempt);
CalcDelay ==
    /\ pc = "calc"
    /\ delay' = calculate_delay(client, attempt)
    /\ pc' = "delayed"
    /\ UNCHANGED <<state, inbound, reply, client, attempt, last_error, calls, sleeps,
                   outcomes, result>>

NextDelay == CalcDelay

SpecDelay == InitDelay /\ [][NextDelay]_vars

-----------------------------------------------------------------------------
(* State::new alone, under any init config                                 *)

\* what an init object may supply for each field
InitConfigs ==
    { InitConfig(m, c, t, r) :
        m \in {None, Some("gemini-2.0-pro"), Some("gemini-1.5-flash")},
        c \in {None, Some(0), Some(500)},
        t \in {None, Some(U32(0)), Some(U32(5000))},
        r \in {None} \cup { Some(x) : x \in CustomRetryConfigs } }

NoState == [id |-> "", api_key |-> "", config |-> ConfigDefault, store_id |-> None]

\* init has parsed its data: inbound holds the id, the key, the store id and
\* the optional init config
InitNew ==
    /\ inbound \in { [kind |-> "Init", id |-> "google-proxy", api_key |-> "test-api-key",
                      store_id |-> s, config |-> c] :
                        s \in {None}, c \in {None} \cup { Some(x) : x \in InitConfigs } }
    /\ state = NoState
    /\ reply = NoReply
    /\ client = NoClient
    /\ pc = "init"
    /\ attempt = 0
    /\ last_error = NoError
    /\ delay = U32(0)
    /\ calls = 0
    /\ sleeps = <<>>
    /\ outcomes = <<>>
    /\ result = NoResult

\* let state = State::new(id, init_data.google_api_key, init_data.store_id, init_data.config)
NewState ==
    /\ pc = "init"
    /\ state' = StateNew(inbound.id, inbound.api_key, inbound.store_id, inbound.config)
    /\ pc' = "idle"
    /\ UNCHANGED <<inbound, reply, client, attempt, last_error, delay, calls, sleeps,
                   outcomes, result>>

NextNew == NewState

SpecNew == InitNew /\ [][NextNew]_vars

-----------------------------------------------------------------------------
(* Message -> Content -> Message                                           *)

MaxBlocks == 2

Texts == {"", "hello", "be brief", "hi\nthere"}

TextBlocks == UNION { [1..n -> {TextContent(t) : t \in Texts}] : n \in 0..MaxBlocks }

RoundTripMessages ==
    { Message(r, c) : r \in {"User", "Assistant", "System"}, c \in TextBlocks }
    \cup NonTextMessages

InitRoundTrip ==
    /\ inbound \in { [kind |-> "Message", message |-> m] : m \in RoundTripMessages }
    /\ state = NoState
    /\ reply = NoReply
    /\ client = NoClient
    /\ pc = "translate"
    /\ attempt = 0
    /\ last_error = NoError
    /\ delay = U32(0)
    /\ calls = 0
    /\ sleeps = <<>>
    /\ outcomes = <<>>
    /\ result = NoResult

\* Content::try_from(message); result holds what it returned
TranslateMessage ==
    /\ pc = "translate"
    /\ result' = content_try_from(inbound.message)
    /\ pc' = IF content_try_from(inbound.message).ok THEN "translated" ELSE "failed"
    /\ UNCHANGED <<state, inbound, reply, client, attempt, last_error, delay, calls,
                   sleeps, outcomes>>

\* Message::try_from(content); reply holds what it returned
MapBack ==
    /\ pc = "translated"
    /\ reply' = message_try_from(result.value)
    /\ pc' = "mapped"
    /\ UNCHANGED <<state, inbound, client, attempt, last_error, delay, calls, sleeps,
                   outcomes, result>>

NextRoundTrip == TranslateMessage \/ MapBack

SpecRoundTrip == InitRoundTrip /\ [][NextRoundTrip]_vars

-----------------------------------------------------------------------------
(* The retrying transport (SpecTransport)                                  *)

RetryableStatuses == {429, 500, 502, 503, 504}

RetryableOutcome(o) == ~o.ok \/ o.status \in RetryableStatuses

FinalOutcome(o) == o.ok /\ o.status \notin RetryableStatuses

AllRetryable == \A i \in 1..Len(outcomes) : RetryableOutcome(outcomes[i])

\* C1: there is one network call per attempt, never more than max_retries + 1
\* of them, and a run whose every attempt ends in a retryable outcome
\* returns only after exactly max_retries + 1 calls.
C1_ExactlyMaxRetriesPlusOneCalls ==
    /\ calls = Len(outcomes)
    /\ calls <= client.retry_config.max_retries + 1
    /\ pc = "send" => calls = attempt
    /\ pc = "returned" => calls = attempt + 1
    /\ (AllRetryable /\ pc = "returned") => calls = client.retry_config.max_retries + 1

C1_Witness ==
    /\ pc = "returned"
    /\ AllRetryable
    /\ client.retry_config.max_retries = 3
    /\ calls = 4
    /\ \A i \in 1..4 : outcomes[i].ok /\ outcomes[i].status = 503

\* C2: when the retries are exhausted the error returned is the one of the
\* final attempt: ApiError with the last response's status and body text, or
\* HttpError with the last send failure's message.
C2_ExhaustionReturnsLastError ==
    (pc = "returned" /\ ~result.ok) =>
        LET last == outcomes[Len(outcomes)]
        IN  /\ Len(outcomes) = client.retry_config.max_retries + 1
            /\ last.ok =>
                 /\ result.error.kind = "ApiError"
                 /\ result.error.status = last.status
                 /\ ~last.body.some => result.error.message = <<"">>
                 /\ (last.body.some /\ last.body.utf8) =>
                        result.error.message = <<last.body.text>>
                 /\ (last.body.some /\ ~last.body.utf8) =>
                        result.error.message # <<last.body.text>>
            /\ ~last.ok =>
                 result.error = [kind |-> "HttpError", status |-> 0,
                                 message |-> <<last.error>>]

C2_Witness ==
    /\ pc = "returned"
    /\ ~result.ok
    /\ Len(outcomes) = 3
    /\ ~outcomes[1].ok
    /\ outcomes[2].ok /\ outcomes[2].status = 429
    /\ outcomes[3].ok /\ outcomes[3].status = 504
    /\ result.error.status = 504

\* C3: a response with a status outside the retryable set ends the run at
\* once: it is the last network call, it is returned as Ok unchanged, and no
\* delay follows it.
C3_FinalStatusReturnsImmediately ==
    \A i \in 1..Len(outcomes) :
        FinalOutcome(outcomes[i]) =>
            /\ i = Len(outcomes)
            /\ calls = i
            /\ pc = "returned"
            /\ result.set /\ result.ok
            /\ result.response = outcomes[i]
            /\ Len(sleeps) = i - 1

C3_Witness ==
    /\ pc = "returned"
    /\ Len(outcomes) = 2
    /\ RetryableOutcome(outcomes[1])
    /\ result.ok
    /\ result.response.status = 404
    /\ Len(sleeps) = 1

-----------------------------------------------------------------------------
(* The backoff delay (SpecDelay)                                           *)

RECURSIVE Pow(_, _)
Pow(b, n) == IF n = 0 THEN 1 ELSE b * Pow(b, n - 1)

Minimum(a, b) == IF a <= b THEN a ELSE b

BitLenU32(u) == IF u.hi > 0 THEN 16 + BitLen(u.hi) ELSE BitLen(u.lo)

\* base_delay_ms and max_delay_ms below 2^16 and a non-zero multiplier: the
\* product base_delay_ms * multiplier^attempt is the fraction Num / Den, with
\* the sign of the multiplier when the attempt is odd
SmallCase ==
    /\ client.retry_config.base_delay_ms.hi = 0
    /\ client.retry_config.max_delay_ms.hi = 0
    /\ client.retry_config.backoff_multiplier.m > 0

Num ==
    LET k == client.retry_config.backoff_multiplier
    IN  client.retry_config.base_delay_ms.lo * Pow(k.m, attempt)
            * (IF k.e > 0 THEN Pow(2, k.e * attempt) ELSE 1)

Den ==
    LET k == client.retry_config.backoff_multiplier
    IN  IF k.e < 0 THEN Pow(2, (-k.e) * attempt) ELSE 1

NegativeProduct ==
    /\ client.retry_config.backoff_multiplier.neg
    /\ attempt % 2 = 1
    /\ Num > 0

\* the multiplier is at least 2^j with j >= 0 and the base at least 2^k, with
\* k + j * attempt >= 32: the product is 2^32 or more
ProductOverflowsU32 ==
    LET k == client.retry_config.backoff_multiplier
        j == BitLen(k.m) - 1 + k.e
    IN  /\ ~k.neg /\ k.m > 0 /\ j >= 0
        /\ BitLenU32(client.retry_config.base_delay_ms) >= 1
        /\ BitLenU32(client.retry_config.base_delay_ms) - 1 + j * attempt >= 32

\* C4 as stated: calculate_delay(attempt) is exactly
\* min(base_delay_ms * backoff_multiplier^attempt, max_delay_ms).
C4_DelayIsExactProduct ==
    (pc = "delayed" /\ SmallCase) =>
        IF NegativeProduct THEN FALSE
        ELSE IF Num >= client.retry_config.max_delay_ms.lo * Den
        THEN delay = client.retry_config.max_delay_ms
        ELSE delay.hi = 0 /\ delay.lo * Den = Num

\* C4, amended: calculate_delay(attempt) is never greater than max_delay_ms;
\* it is min(t, max_delay_ms) where t is the product with its fraction
\* dropped, 0 for a negative product; and it is max_delay_ms when the product
\* is 2^32 or more.
C4_DelayIsClampedTruncatedProduct ==
    pc = "delayed" =>
        /\ U32Le(delay, client.retry_config.max_delay_ms)
        /\ (SmallCase /\ NegativeProduct) => delay = U32(0)
        /\ (SmallCase /\ ~NegativeProduct) =>
              /\ delay.hi = 0
              /\ delay.lo = Minimum(Num \div Den, client.retry_config.max_delay_ms.lo)
        /\ ProductOverflowsU32 => delay = client.retry_config.max_delay_ms

C4_Witness ==
    /\ pc = "delayed"
    /\ ProductOverflowsU32
    /\ client.retry_config.base_delay_ms = U32(2^30)
    /\ attempt = 2
    /\ delay = U32_MAX

MultiplierAtLeastOne ==
    LET k == client.retry_config.backoff_multiplier
    IN  ~k.neg /\ k.m > 0 /\ BitLen(k.m) - 1 + k.e >= 0

\* C5: with a multiplier >= 1 the delay of an attempt below max_retries is
\* at least the delay of every earlier attempt.
C5_DelayNeverDecreases ==
    (pc = "delayed" /\ MultiplierAtLeastOne /\ attempt < client.retry_config.max_retries) =>
        \A i \in 0..(attempt - 1) : U32Le(calculate_delay(client, i), delay)

C5_Witness ==
    /\ pc = "delayed"
    /\ MultiplierAtLeastOne
    /\ attempt = 3
    /\ attempt < client.retry_config.max_retries
    /\ calculate_delay(client, 2) # delay
    /\ delay = U32(6750)

-----------------------------------------------------------------------------
(* Translation and dispatch (Spec)                                         *)

\* the request in hand is a completion request holding a block other than Text
HasNonTextBlock ==
    /\ inbound.kind = "GenerateCompletion"
    /\ \E i \in 1..Len(inbound.request.messages) :
           \E j \in 1..Len(inbound.request.messages[i].content) :
               inbound.request.messages[i].content[j].kind # "Text"

\* C6: a completion request holding a block other than Text is answered
\* with a structured Error and not one network call is made for it.
C6_NonTextRequestMakesNoCall ==
    HasNonTextBlock =>
        /\ calls = 0
        /\ outcomes = <<>>
        /\ sleeps = <<>>
        /\ pc = "idle"
        /\ reply.kind = "Ok"
        /\ reply.response.tag = "Error"

C6_Witness ==
    /\ HasNonTextBlock
    /\ Len(inbound.request.messages) = 2
    /\ inbound.request.messages[1].content[1].kind = "Text"
    /\ inbound.request.messages[2].content[1].kind = "ToolResult"
    /\ reply.kind = "Ok"
    /\ reply.response.tag = "Error"

\* C7: the request translation of a request holding a block other than Text
\* fails with an error of kind UnsupportedFeature.
C7_TranslationFailsWithUnsupportedFeature ==
    HasNonTextBlock =>
        LET translated == generate_content_request_try_from(inbound.request)
        IN  /\ ~translated.ok
            /\ translated.error.kind = "UnsupportedFeature"

\* generate_content has returned a parsed or unparsed 200 response
Answered200 ==
    /\ pc = "returned"
    /\ result.ok
    /\ result.response.status = 200
    /\ result.response.body.some
    /\ result.response.body.json # NotJson

FirstCandidateParts == result.response.body.json.candidates[1].content.parts

HasFirstCandidate ==
    /\ Answered200
    /\ Len(result.response.body.json.candidates) > 0

\* C8: a 200 response whose first candidate holds a function-call part is
\* answered with a Completion holding a ToolUse block and the stop reason
\* ToolUse.
C8_FunctionCallBecomesToolUse ==
    (HasFirstCandidate /\ "functionCall" \in DOMAIN FirstCandidateParts[1]) =>
        /\ reply.kind = "Ok"
        /\ reply.response.tag = "Completion"
        /\ reply.response.completion.content[1].kind = "ToolUse"
        /\ reply.response.completion.stop_reason.tag = "ToolUse"

\* C9: a 200 response that parses and whose first candidate holds a part
\* that is neither text nor a function call makes the response translation
\* return an UnsupportedFeature error, with no panic.
C9_InlineDataYieldsUnsupportedFeature ==
    (/\ HasFirstCandidate
     /\ generate_content_return(result).ok
     /\ \E i \in 1..Len(FirstCandidateParts) :
            /\ "text" \notin DOMAIN FirstCandidateParts[i]
            /\ "functionCall" \notin DOMAIN FirstCandidateParts[i]) =>
        LET translated == completion_response_try_from(generate_content_return(result).value)
        IN  /\ reply.kind # "Panic"
            /\ ~translated.panic
            /\ ~translated.ok
            /\ translated.error.kind = "UnsupportedFeature"

\* the stop reason the specification's table gives the finish reason of wire tag t
StopReasonOfWireTag(t) ==
    IF t \in {"STOP", "FINISH_REASON_UNSPECIFIED"} THEN [tag |-> "EndTurn", other |-> ""]
    ELSE IF t = "MAX_TOKENS" THEN [tag |-> "MaxTokens", other |-> ""]
    ELSE [tag |-> "Other", other |-> t]

\* C10: every finish reason maps to a stop reason; STOP and
\* FINISH_REASON_UNSPECIFIED give EndTurn, MAX_TOKENS gives MaxTokens, and
\* every other one gives Other carrying its wire tag unchanged.
C10_OtherCarriesWireTag ==
    (/\ HasFirstCandidate
     /\ reply.kind = "Ok"
     /\ reply.response.tag = "Completion") =>
        reply.response.completion.stop_reason =
            StopReasonOfWireTag(result.response.body.json.candidates[1].finish_reason)

\* C11: a request that is not a valid ProxyRequest envelope is answered Ok
\* with a ProxyResponse::Error, with no network call, and with the state
\* bytes the handler was given.
C11_MalformedEnvelopeGetsStructuredError ==
    inbound.kind = "Malformed" =>
        /\ reply.kind = "Ok"
        /\ reply.response.tag = "Error"
        /\ reply.state = state
        /\ calls = 0
        /\ outcomes = <<>>
        /\ pc = "idle"

C11_Witness ==
    /\ inbound.kind = "Malformed"
    /\ inbound.text = "unknown variant"
    /\ state.api_key = "other-api-key"
    /\ reply.kind = "Ok"
    /\ reply.response.error = <<"Invalid request format: ", "unknown variant">>

\* the handling of the completion request in hand has ended
CompletionHandled ==
    /\ inbound.kind = "GenerateCompletion"
    /\ pc \in {"idle", "returned"}

\* C12: once the envelope has parsed as a GenerateCompletion the handler
\* returns Ok, and Ok with a ProxyResponse::Error whenever the request
\* translation, the transport, the status, the body or the response
\* translation failed.
C12_FailuresBecomeStructuredErrors ==
    CompletionHandled =>
        /\ reply.kind = "Ok"
        /\ reply.response.tag \in {"Completion", "Error"}
        /\ (pc = "idle" \/ ~result.ok \/ result.response.status # 200
               \/ ~result.response.body.some
               \/ result.response.body.json = NotJson) =>
              reply.response.tag = "Error"

\* C13: generate_content answers a response of the transport with ApiError
\* exactly when its status is outside 200..299.
C13_ApiErrorExactlyForNon2xx ==
    (CompletionHandled /\ pc = "returned" /\ result.ok) =>
        LET generated == generate_content_return(result)
        IN  (~generated.ok /\ generated.error.kind = "ApiError")
                <=> (result.response.status \notin 200..299)

\* C14: a 200 response that parses with an empty candidate sequence makes
\* the response translation return an error value, with no panic.
C14_EmptyCandidatesYieldError ==
    (/\ Answered200
     /\ generate_content_return(result).ok
     /\ Len(result.response.body.json.candidates) = 0) =>
        LET translated == completion_response_try_from(generate_content_return(result).value)
        IN  /\ ~translated.panic
            /\ ~translated.ok
            /\ reply.kind \in {"Ok", "Err"}

\* C15: ListModels is answered Ok with ProxyResponse::ListModels holding the
\* two models of the catalog, whatever the state, and no network call is made.
C15_ListModelsIsStaticAndOffline ==
    inbound.kind = "ListModels" =>
        /\ reply.kind = "Ok"
        /\ reply.state = state
        /\ reply.response.tag = "ListModels"
        /\ Len(reply.response.models) = 2
        /\ reply.response.models[1].id = "gemini-2.0-flash"
        /\ reply.response.models[1].max_tokens = 8000
        /\ reply.response.models[2].id = "gemini-2.0-pro"
        /\ reply.response.models[2].max_tokens = 16000
        /\ calls = 0
        /\ outcomes = <<>>
        /\ pc = "idle"

C15_Witness ==
    /\ inbound.kind = "ListModels"
    /\ state.api_key = "other-api-key"
    /\ state.config.retry_config.max_retries = 0
    /\ reply.kind = "Ok"
    /\ reply.response.tag = "ListModels"

\* C16: for one dispatched request every network call but the last ended in
\* a retryable outcome of the transport, there are at most max_retries + 1
\* calls, and once the transport has returned the handler has returned too.
C16_NoRetryAboveTransport ==
    /\ calls = Len(outcomes)
    /\ calls <= client.retry_config.max_retries + 1
    /\ \A i \in 1..(Len(outcomes) - 1) : RetryableOutcome(outcomes[i])
    /\ pc = "returned" => reply.kind # "None"
    /\ pc = "send" => (reply.kind = "None" /\ AllRetryable)

C16_Witness ==
    /\ pc = "returned"
    /\ Len(outcomes) = 2
    /\ outcomes[1].ok /\ outcomes[1].status = 503
    /\ outcomes[2].ok /\ outcomes[2].status = 404
    /\ reply.kind = "Ok"
    /\ reply.response.tag = "Error"

-----------------------------------------------------------------------------
(* State::new (SpecNew)                                                    *)

\* the field f of the init config in hand, if the init object supplies it
Supplied(f) == inbound.config.some /\ inbound.config.value[f].some

\* C17: every field the init config supplies takes the supplied value and
\* every other field its default: "gemini-2.0-flash", 100, 30000 and
\* 3 / 1000 / 30000 / 2.0.
C17_InitConfigMergesOverDefaults ==
    pc = "idle" =>
        /\ state.id = inbound.id
        /\ state.api_key = inbound.api_key
        /\ state.store_id = inbound.store_id
        /\ state.config.default_model =
              (IF Supplied("default_model") THEN inbound.config.value.default_model.value
               ELSE "gemini-2.0-flash")
        /\ state.config.max_cache_size =
              (IF Supplied("max_cache_size")
               THEN [some |-> TRUE, value |-> inbound.config.value.max_cache_size.value]
               ELSE [some |-> TRUE, value |-> 100])
        /\ state.config.timeout_ms =
              (IF Supplied("timeout_ms") THEN inbound.config.value.timeout_ms.value
               ELSE [hi |-> 0, lo |-> 30000])
        /\ state.config.retry_config =
              (IF Supplied("retry_config") THEN inbound.config.value.retry_config.value
               ELSE [max_retries |-> 3, base_delay_ms |-> [hi |-> 0, lo |-> 1000],
                     max_delay_ms |-> [hi |-> 0, lo |-> 30000],
                     backoff_multiplier |-> [neg |-> FALSE, m |-> 1, e |-> 1]])

C17_Witness ==
    /\ pc = "idle"
    /\ Supplied("default_model")
    /\ ~Supplied("max_cache_size")
    /\ ~Supplied("timeout_ms")
    /\ ~Supplied("retry_config")
    /\ state.config.default_model = "gemini-2.0-pro"
    /\ state.config.max_cache_size.value = 100

-----------------------------------------------------------------------------
(* Message -> Content -> Message (SpecRoundTrip)                           *)

OnlyText(message) ==
    \A i \in 1..Len(message.content) : message.content[i].kind = "Text"

\* C18: a message of Text blocks translates to a vendor Content, and the
\* Content maps back to a message with the same role and the same texts in
\* the same order.
C18_TextRoundTrip ==
    OnlyText(inbound.message) =>
        /\ pc # "failed"
        /\ pc = "translated" => result.ok
        /\ pc = "mapped" =>
              /\ reply.ok
              /\ reply.value.role = inbound.message.role
              /\ Len(reply.value.content) = Len(inbound.message.content)
              /\ \A i \in 1..Len(inbound.message.content) :
                     /\ reply.value.content[i].kind = "Text"
                     /\ reply.value.content[i].text = inbound.message.content[i].text

C18_Witness ==
    /\ pc = "mapped"
    /\ inbound.message.role = "System"
    /\ Len(inbound.message.content) = 2
    /\ inbound.message.content[1].text = "be brief"
    /\ inbound.message.content[2].text = ""
    /\ reply.ok
    /\ reply.value.role = "System"

-----------------------------------------------------------------------------
(* Delays of the transport (SpecTransport)                                 *)

\* C19: one delay is requested after every attempt but the one that
\* returns, the delay after attempt i is calculate_delay(i), and none is
\* requested before the first attempt.
C19_DelaysAlternateWithCalls ==
    /\ pc = "send" => Len(sleeps) = calls
    /\ pc = "returned" => Len(sleeps) = calls - 1
    /\ \A i \in 1..Len(sleeps) :
           /\ i <= client.retry_config.max_retries
           /\ RetryableOutcome(outcomes[i])
           /\ sleeps[i] = calculate_delay(client, i - 1)

C19_Witness ==
    /\ pc = "returned"
    /\ ~result.ok
    /\ calls = 4
    /\ sleeps = << [hi |-> 0, lo |-> 2000], [hi |-> 0, lo |-> 3000], [hi |-> 0, lo |-> 4500] >>

-----------------------------------------------------------------------------
(* The retry policy of a dispatched request (Spec)                         *)

\* C20: a dispatched request whose every attempt ends in a retryable
\* outcome makes config.retry_config.max_retries + 1 calls, config being the
\* configuration of the state, and its delays are the ones of that
\* retry_config.
C20_StateRetryConfigIsApplied ==
    (inbound.kind = "GenerateCompletion" /\ pc = "returned" /\ AllRetryable) =>
        /\ calls = state.config.retry_config.max_retries + 1
        /\ \A i \in 1..Len(sleeps) :
               sleeps[i] = calculate_delay([retry_config |-> state.config.retry_config], i - 1)

-----------------------------------------------------------------------------
(* The actor state across messages (Spec)                                  *)

\* C21: every Ok return of a handler carries the state the handler was
\* given, and no step of any handler changes the state the actor holds: it
\* stays the state that init produced.
C21_HandlersNeverChangeState ==
    /\ [](reply.kind = "Ok" => reply.state = state)
    /\ [](state \in States)
    /\ [][state' = state]_vars

C21_Witness ==
    /\ inbound.kind = "GenerateCompletion"
    /\ pc = "returned"
    /\ calls = 2
    /\ reply.kind = "Ok"
    /\ reply.response.tag = "Completion"
    /\ reply.state = state
    /\ state.api_key = "other-api-key"
    /\ state.config.retry_config.max_retries = 1

=============================================================================
